---- MODULE Spec2Model ----
(***************************************************************************)
(* Model of ExecutionWsService (src/execution-ws/execution-ws.service.ts): *)
(* the session registry, the provisioning of a container per session, the  *)
(* one-shot execs that write command records to the control file           *)
(* /commandListener/commands.txt of a container, and the output relay.     *)
(*                                                                         *)
(* The Docker engine is an external collaborator.  Each request to it      *)
(* (createContainer, container.start, container.exec, exec.start,          *)
(* container.attach) is a step that the engine answers by resolving or     *)
(* rejecting the promise the service awaits.                               *)
(***************************************************************************)
EXTENDS Integers, Sequences, FiniteSets, TLC

\* ---------------------------------------------------------------- bounds
MaxCalls == 2       \* startPythonSession calls issued in a behaviour
MaxExecs == 2       \* upsertFiles / startProgram / sendInput calls issued
MaxChunks == 2      \* output chunks the containers emit in a behaviour
MaxAttach == 1      \* setupContainerOutputListener calls issued

\* ------------------------------------------------------------- constants
Calls == 1 .. MaxCalls
\* every createContainer yields a new container object
Containers == 1 .. MaxCalls
\* the values uuidv4() can return
UuidNames == <<"u1", "u2", "u3", "u4">>
Uuids == {UuidNames[i] : i \in 1 .. MaxCalls}
\* ids a caller of registerContainer / getContainer can make up itself
OtherIds == {"other"}
NoId == "none"
NoContainer == 0
\* Map.get of a missing key
Undefined == -1

\* characters of a shell line, each named by a token: the double quote, the
\* backquote, the dollar sign, the backslash, the newline and the space
DQ == "<dquote>"
BQ == "<bquote>"
DOLLAR == "<dollar>"
BS == "<bslash>"
NL == "<newline>"
SP == "<space>"
Special == {DQ, BQ, DOLLAR, BS, NL}
\* the characters input texts are made of: one ordinary character and the
\* shell's special characters
Alphabet == {"x"} \cup Special
\* what a command substitution or a variable leaves in the echoed text
CMDOUT == "<output of the command>"
PID == "<pid of the shell>"

VARIABLES
    sessionContainers,  \* the Map of session ids to containers (line 26)
    calls,              \* position and locals of each startPythonSession call
    containerState,     \* engine side: state of every container
    lastCall,           \* the last getContainer / registerContainer call
    containerConfig,    \* engine side: the options every container was created with
    execs,              \* the upsertFiles / startProgram / sendInput calls, in issue order
    ctl,                \* per container: the lines of /commandListener/commands.txt
    observed,           \* per container: the records the command listener has read
    readPos,            \* per container: lines of the control file already read
    emitted,            \* per container: number of output chunks it has emitted
    attaches            \* the setupContainerOutputListener calls, in issue order

sessionVars == <<sessionContainers, calls, containerState, lastCall, containerConfig>>
commandVars == <<execs, ctl, observed, readPos>>
relayVars == <<emitted, attaches>>

\* ------------------------------------------------------ the session registry
\* a set that keeps no binding but the new one
MapSetOnly(map, id, c) == [k \in {id} |-> c]

\* Map.prototype.set: binds id, replacing the binding id had
MapSet(map, id, c) ==
    [k \in (DOMAIN map) \cup {id} |-> IF k = id THEN c ELSE map[k]]

\* a lookup that falls back to some bound container for an unbound id
MapGetAny(map, id) ==
    IF id \in DOMAIN map THEN map[id]
    ELSE IF DOMAIN map # {} THEN map[CHOOSE k \in DOMAIN map : TRUE]
    ELSE Undefined

\* Map.prototype.get: the binding of id, undefined when there is none
MapGet(map, id) ==
    IF id \in DOMAIN map THEN map[id] ELSE Undefined

\* the registry as a single slot: every id is bound to the last container
registerContainerShared(map, sessionId, container) ==
    [k \in (DOMAIN map) \cup {sessionId} |-> container]

registerContainer(map, sessionId, container) ==
    MapSet(map, sessionId, container)

getContainer(map, sessionId) ==
    [outcome |-> "resolved", value |-> MapGet(map, sessionId)]

\* ids handed out by uuidv4 so far
usedIds == {calls[p].sessionId : p \in Calls} \ {NoId}

\* uuidv4(): a random 122-bit value, modelled as a value not returned before.
\* The values are interchangeable, so the next unused one stands for any.
uuidv4 == {id \in Uuids \ usedIds :
             \E i \in 1 .. MaxCalls : id = UuidNames[i] /\ i = Cardinality(usedIds) + 1}

\* containers the engine has created
createdContainers == {c \in Containers : containerState[c] # "absent"}

\* docker.createContainer resolves with a new container object
newContainer == CHOOSE c \in Containers \ createdContainers :
                    \A d \in Containers \ createdContainers : c <= d

\* containers whose start() has resolved
startedContainers == {c \in Containers : containerState[c] \in {"running", "exited"}}

\* the image of the python sessions (line 23)
pythonImage == "python-interactive"

\* the workspace directory of a session: join(__dirname, 'temp', sessionId)
\* (line 47)
tempDir(sessionId) == <<"temp", sessionId>>

\* the options startInteractiveSession passes to docker.createContainer
\* (lines 66-78): HostConfig carries the runtime and nothing else, so the
\* container gets no bind mount; the parameter tempDir is not used
createContainerOptions(image, dir) ==
    [Image |-> image, WorkingDir |-> "/commandListener", Binds |-> {}]

\* the options of a container that does not exist
NoConfig == [Image |-> "none", WorkingDir |-> "none", Binds |-> {}]

Init ==
    /\ sessionContainers = << >>
    /\ calls = [p \in Calls |-> [pc |-> "idle", sessionId |-> NoId,
                                 container |-> NoContainer, result |-> NoId]]
    /\ containerState = [c \in Containers |-> "absent"]
    /\ containerConfig = [c \in Containers |-> NoConfig]
    /\ lastCall = [op |-> "none", id |-> NoId, outcome |-> "none", value |-> Undefined]
    /\ execs = << >>
    /\ ctl = [c \in Containers |-> << >>]
    /\ observed = [c \in Containers |-> << >>]
    /\ readPos = [c \in Containers |-> 0]
    /\ emitted = [c \in Containers |-> 0]
    /\ attaches = << >>

\* ------------------------------------------------------ startPythonSession
\* lines 46-51 up to the first await: the id is generated and
\* docker.createContainer is requested
startPythonSession(p) ==
    /\ calls[p].pc = "idle"
    /\ \E id \in uuidv4 :
          calls' = [calls EXCEPT ![p].pc = "createContainer", ![p].sessionId = id]
    /\ UNCHANGED <<commandVars, relayVars, containerConfig, sessionContainers, containerState, lastCall>>

\* line 66: createContainer resolves; line 79: container.start is requested
createContainerResolve(p) ==
    /\ calls[p].pc = "createContainer"
    /\ createdContainers # Containers
    /\ containerState' = [containerState EXCEPT ![newContainer] = "created"]
    /\ containerConfig' = [containerConfig EXCEPT ![newContainer] =
                              createContainerOptions(pythonImage, tempDir(calls[p].sessionId))]
    /\ calls' = [calls EXCEPT ![p].pc = "start", ![p].container = newContainer]
    /\ UNCHANGED <<commandVars, relayVars, sessionContainers, lastCall>>

\* line 66: createContainer rejects; the rejection propagates through
\* startInteractiveSession (line 51) to the caller of startPythonSession
createContainerReject(p) ==
    /\ calls[p].pc = "createContainer"
    /\ calls' = [calls EXCEPT ![p].pc = "rejected", ![p].result = "EngineError"]
    /\ UNCHANGED <<commandVars, relayVars, containerConfig, sessionContainers, containerState, lastCall>>

\* line 79: start resolves; line 80 returns the container, line 54 registers
\* it and line 56 returns the session id
containerStartResolve(p) ==
    /\ calls[p].pc = "start"
    /\ containerState' = [containerState EXCEPT ![calls[p].container] = "running"]
    /\ sessionContainers' =
          registerContainer(sessionContainers, calls[p].sessionId, calls[p].container)
    /\ calls' = [calls EXCEPT ![p].pc = "returned", ![p].result = calls[p].sessionId]
    /\ UNCHANGED <<commandVars, relayVars, containerConfig, lastCall>>

\* a start that rejects and whose container is registered all the same
containerStartRejectRegisters(p) ==
    /\ calls[p].pc = "start"
    /\ sessionContainers' =
          MapSet(sessionContainers, calls[p].sessionId, calls[p].container)
    /\ calls' = [calls EXCEPT ![p].pc = "rejected", ![p].result = "EngineError"]
    /\ UNCHANGED <<commandVars, relayVars, containerConfig, containerState, lastCall>>

\* line 79: start rejects; lines 54-56 are not reached
containerStartReject(p) ==
    /\ calls[p].pc = "start"
    /\ calls' = [calls EXCEPT ![p].pc = "rejected", ![p].result = "EngineError"]
    /\ UNCHANGED <<commandVars, relayVars, containerConfig, sessionContainers, containerState, lastCall>>

\* the engine side: a running container stops (its process exits or crashes)
containerExit(c) ==
    /\ containerState[c] = "running"
    /\ containerState' = [containerState EXCEPT ![c] = "exited"]
    /\ UNCHANGED <<commandVars, relayVars, containerConfig, sessionContainers, calls, lastCall>>

\* ids a caller can pass: the ids returned to it and ids of its own making
knownIds == {calls[p].result : p \in {q \in Calls : calls[q].pc = "returned"}} \cup OtherIds

\* a call of getContainer (lines 162-165)
GetContainer(id) ==
    /\ lastCall' = [op |-> "getContainer", id |-> id,
                    outcome |-> getContainer(sessionContainers, id).outcome,
                    value |-> getContainer(sessionContainers, id).value]
    /\ UNCHANGED <<commandVars, relayVars, containerConfig, sessionContainers, calls, containerState>>

\* a direct call of the public registerContainer (lines 172-175)
RegisterContainer(id, c) ==
    /\ sessionContainers' = registerContainer(sessionContainers, id, c)
    /\ lastCall' = [op |-> "registerContainer", id |-> id,
                    outcome |-> "returned", value |-> c]
    /\ UNCHANGED <<commandVars, relayVars, containerConfig, calls, containerState>>

\* ------------------------------------------------- the shell line of an exec
\* The Cmd of each exec is ['sh', '-c', `echo "${payload}" > file`] (lines 89,
\* 114, 132): the payload is pasted between two double quotes and the shell
\* parses the result.  Sh reads the payload s from position i on; dq tells
\* whether the shell is inside double quotes, out is the text of the command
\* being read, first whether that command still is the echo of the template,
\* ran whether text of the payload has been executed as a command.
\* The result: status "echo" (echo wrote out to the redirected file), "syntax"
\* (the shell stopped at a syntax error and the redirection never happened) or
\* "command" (the redirection applies to a command named by the payload).

\* position of the backquote that closes the one at i, 0 when there is none
ClosingBQ(s, i) ==
    LET js == {j \in (i + 1) .. Len(s) : s[j] = BQ /\ s[j - 1] # BS}
    IN  IF js = {} THEN 0 ELSE CHOOSE j \in js : \A k \in js : j <= k

\* first position after the variable name that starts at i
RECURSIVE NameEnd(_, _)
NameEnd(s, i) ==
    IF i <= Len(s) /\ s[i] \notin Special \cup {SP} THEN NameEnd(s, i + 1) ELSE i

RECURSIVE Sh(_, _, _, _, _, _)
Sh(s, i, dq, out, first, ran) ==
    IF i > Len(s)
    THEN \* the closing quote of the template, then the redirection
         IF dq
         THEN [status |-> IF first THEN "echo" ELSE "command", out |-> out,
               ran |-> ran \/ (~first /\ out # << >>)]
         ELSE [status |-> "syntax", out |-> << >>, ran |-> ran]
    ELSE
    LET c == s[i] IN
    IF c = DQ THEN Sh(s, i + 1, ~dq, out, first, ran)
    ELSE IF c = BS THEN
        IF i = Len(s)
        THEN \* the backslash escapes the closing quote of the template
             IF dq THEN [status |-> "syntax", out |-> << >>, ran |-> ran]
             ELSE [status |-> IF first THEN "echo" ELSE "command",
                   out |-> out \o <<DQ>>, ran |-> ran \/ ~first]
        ELSE IF s[i + 1] = NL THEN Sh(s, i + 2, dq, out, first, ran)
        ELSE IF dq /\ s[i + 1] \notin {DQ, DOLLAR, BQ, BS}
             THEN Sh(s, i + 2, dq, out \o <<BS, s[i + 1]>>, first, ran)
             ELSE Sh(s, i + 2, dq, out \o <<s[i + 1]>>, first, ran)
    ELSE IF c = DOLLAR THEN
        IF i < Len(s) /\ s[i + 1] = DOLLAR
        THEN Sh(s, i + 2, dq, out \o <<PID>>, first, ran)
        ELSE IF i < Len(s) /\ s[i + 1] \notin Special \cup {SP}
        THEN \* an unset variable expands to nothing
             Sh(s, NameEnd(s, i + 1), dq, out, first, ran)
        ELSE Sh(s, i + 1, dq, out \o <<DOLLAR>>, first, ran)
    ELSE IF c = BQ THEN
        LET j == ClosingBQ(s, i) IN
        IF j = 0 THEN [status |-> "syntax", out |-> << >>, ran |-> ran]
        ELSE IF \A k \in (i + 1) .. (j - 1) : s[k] \in {SP, NL}
        THEN Sh(s, j + 1, dq, out, first, ran)
        ELSE Sh(s, j + 1, dq, out \o <<CMDOUT>>, first, TRUE)
    ELSE IF c = NL /\ ~dq
    THEN \* the command read so far runs with its output on the terminal
         Sh(s, i + 1, FALSE, << >>, FALSE, ran \/ (~first /\ out # << >>))
    ELSE Sh(s, i + 1, dq, out \o <<c>>, first, ran)

ShellLine(payload) == Sh(payload, 1, TRUE, << >>, TRUE, FALSE)

\* the lines of a text in which every line ends with a newline
RECURSIVE SplitLines(_, _, _)
SplitLines(s, i, cur) ==
    IF i > Len(s) THEN (IF cur = << >> THEN << >> ELSE <<cur>>)
    ELSE IF s[i] = NL THEN <<cur>> \o SplitLines(s, i + 1, << >>)
    ELSE SplitLines(s, i + 1, cur \o <<s[i]>>)

\* what echo prints: its argument and a newline
EchoLines(out) == SplitLines(out \o <<NL>>, 1, << >>)

\* the control file after the shell line has run: ">" replaces the content,
\* ">>" adds to it
Redirect(file, redirect, payload) ==
    LET r == ShellLine(payload)
        written == IF r.status = "echo" THEN EchoLines(r.out)
                   ELSE IF r.out = << >> THEN << >> ELSE <<<<CMDOUT>>>>
    IN  IF r.status = "syntax" THEN file
        ELSE IF redirect = ">" THEN written ELSE file \o written

\* the contents the control file can have after the shell line has run: text
\* of the payload that ran as a command can also have emptied the file
WriteOutcomes(file, redirect, payload) ==
    {Redirect(file, redirect, payload)}
        \cup (IF ShellLine(payload).ran THEN {<< >>} ELSE {})

\* ----------------------------------------------------------- the commands
\* lines 107-110: one record and a newline per entry of files, in the order
\* of Object.entries
RECURSIVE commandString(_)
commandString(files) ==
    IF files = << >> THEN << >>
    ELSE <<"upsert", SP>> \o files[1][1] \o <<SP>> \o files[1][2] \o <<NL>>
            \o commandString(Tail(files))

\* the text between the double quotes of the shell line of a call
Payload(op, arg) ==
    IF op = "upsertFiles" THEN commandString(arg)
    ELSE IF op = "startProgram" THEN <<"run">>
    ELSE <<"input", SP>> \o arg

\* a redirection with which only upsertFiles replaces the control file
RedirectOfRunAppends(op) == IF op = "upsertFiles" THEN ">" ELSE ">>"

\* a redirection with which every call adds to the control file
RedirectOfAppend(op) == ">>"

\* the redirection of the shell line of a call (lines 89, 114, 132)
RedirectOf(op) == IF op = "sendInput" THEN ">>" ELSE ">"

\* one control file for all containers
controlFileShared(e) == 1

\* the container whose control file the exec of a call writes: the exec is
\* created on the container passed to the call
controlFile(e) == e.container

\* the texts sendInput is called with: a plain one, and one for each
\* character the shell treats specially between double quotes
Texts == {<<"42">>, <<DQ>>, <<NL>>, <<DOLLAR, "x">>, <<BQ, "x", BQ>>, <<BS>>}
\* the files mappings upsertFiles is called with, each the sequence of its
\* entries <<filename, content>> in the order of Object.entries: none, two
\* plain files, and one file whose content ends with a backslash
FileMaps == {<< >>,
             <<<<(<<"a.txt">>), (<<"hi">>)>>, <<(<<"b.txt">>), (<<"yo">>)>>>>,
             <<<<(<<"b.txt">>), (<<"x", BS>>)>>>>}

\* the promise of call e has resolved or rejected
Settled(e) == e.pc \in {"returned", "rejected"}

\* a call of upsertFiles, startProgram or sendInput up to its first await:
\* container.exec is requested (lines 88, 113, 131).  The caller resolves the
\* container from the session id.  awaited records that every earlier call
\* on the container had settled when this one was issued, attempts counts the
\* container.exec requests the call has made.
IssueCommand(id, op, arg) ==
    /\ Len(execs) < MaxExecs
    /\ id \in DOMAIN sessionContainers
    /\ execs' = Append(execs,
          [op |-> op, arg |-> arg, session |-> id,
           container |-> MapGet(sessionContainers, id),
           pc |-> "exec", ran |-> FALSE, attempts |-> 1,
           awaited |-> \A k \in DOMAIN execs :
                          execs[k].container = MapGet(sessionContainers, id)
                              => Settled(execs[k])])
    /\ UNCHANGED <<sessionVars, relayVars, ctl, observed, readPos>>

upsertFiles(id, files) == IssueCommand(id, "upsertFiles", files)
startProgram(id) == IssueCommand(id, "startProgram", << >>)
sendInput(id, input) == IssueCommand(id, "sendInput", input)

\* container.exec resolves with the exec; exec.start is requested (lines 96,
\* 121, 139)
execResolve(k) ==
    /\ execs[k].pc = "exec"
    /\ containerState[execs[k].container] = "running"
    /\ execs' = [execs EXCEPT ![k].pc = "start"]
    /\ UNCHANGED <<sessionVars, relayVars, ctl, observed, readPos>>

\* a rejection of container.exec after which the session is taken out of the
\* registry
execRejectUnregisters(k) ==
    /\ execs[k].pc = "exec"
    /\ containerState[execs[k].container] # "running"
    /\ execs' = [execs EXCEPT ![k].pc = "rejected"]
    /\ sessionContainers' = [id \in DOMAIN sessionContainers \ {execs[k].session}
                                |-> sessionContainers[id]]
    /\ UNCHANGED <<calls, containerState, lastCall, containerConfig,
                   relayVars, ctl, observed, readPos>>

\* a rejection of container.exec that is answered by one more request
execRejectRetries(k) ==
    /\ execs[k].pc = "exec"
    /\ containerState[execs[k].container] # "running"
    /\ execs' = [execs EXCEPT ![k].pc = IF execs[k].attempts < 2 THEN "exec" ELSE "rejected",
                              ![k].attempts = IF @ < 2 THEN @ + 1 ELSE @]
    /\ UNCHANGED <<sessionVars, relayVars, ctl, observed, readPos>>

\* container.exec rejects, the container not running: the call rejects
execReject(k) ==
    /\ execs[k].pc = "exec"
    /\ containerState[execs[k].container] # "running"
    /\ execs' = [execs EXCEPT ![k].pc = "rejected"]
    /\ UNCHANGED <<sessionVars, relayVars, ctl, observed, readPos>>

\* exec.start({Detach: false}) resolves with the stream of the exec as soon
\* as the engine has answered the request with the header of the stream; the
\* call returns.  The engine runs the command after it has sent the header,
\* and nothing in the call waits for the end of the stream.
startResolve(k) ==
    /\ execs[k].pc = "start"
    /\ containerState[execs[k].container] = "running" \/ execs[k].ran
    /\ execs' = [execs EXCEPT ![k].pc = "returned"]
    /\ UNCHANGED <<sessionVars, relayVars, ctl, observed, readPos>>

\* exec.start rejects, the container not running: the call rejects
startReject(k) ==
    /\ execs[k].pc = "start"
    /\ containerState[execs[k].container] # "running"
    /\ ~execs[k].ran
    /\ execs' = [execs EXCEPT ![k].pc = "rejected"]
    /\ UNCHANGED <<sessionVars, relayVars, ctl, observed, readPos>>

\* the run of the shell line of call e replaced the content of the control
\* file instead of adding to it: the listener starts reading from the top
Rewritten(file, f, e) ==
    \/ Len(f) < Len(file)
    \/ /\ RedirectOf(e.op) = ">"
       /\ ShellLine(Payload(e.op, e.arg)).status # "syntax"

\* the shell line of the exec runs inside its container
execRun(k) ==
    /\ execs[k].pc \in {"start", "returned"}
    /\ ~execs[k].ran
    /\ containerState[execs[k].container] = "running"
    /\ execs' = [execs EXCEPT ![k].ran = TRUE]
    /\ \E f \in WriteOutcomes(ctl[controlFile(execs[k])], RedirectOf(execs[k].op),
                              Payload(execs[k].op, execs[k].arg)) :
          /\ ctl' = [ctl EXCEPT ![controlFile(execs[k])] = f]
          /\ readPos' = [readPos EXCEPT ![controlFile(execs[k])] =
                            IF Rewritten(ctl[controlFile(execs[k])], f, execs[k])
                            THEN 0 ELSE @]
    /\ UNCHANGED <<sessionVars, relayVars, observed>>

\* the command listener inside the container reads the lines of the control
\* file it has not read yet and takes every non-empty one as a record
RECURSIVE NonEmpty(_)
NonEmpty(lines) ==
    IF lines = << >> THEN << >>
    ELSE (IF lines[1] = << >> THEN << >> ELSE <<lines[1]>>) \o NonEmpty(Tail(lines))

listenerRead(c) ==
    /\ containerState[c] = "running"
    /\ readPos[c] < Len(ctl[c])
    /\ observed' = [observed EXCEPT ![c] =
                        @ \o NonEmpty(SubSeq(ctl[c], readPos[c] + 1, Len(ctl[c])))]
    /\ readPos' = [readPos EXCEPT ![c] = Len(ctl[c])]
    /\ UNCHANGED <<sessionVars, relayVars, execs, ctl>>

NextCommands ==
    \/ \E id \in Uuids, files \in FileMaps : upsertFiles(id, files)
    \/ \E id \in Uuids : startProgram(id)
    \/ \E id \in Uuids, input \in Texts : sendInput(id, input)
    \/ \E k \in DOMAIN execs : execResolve(k)
    \/ \E k \in DOMAIN execs : execReject(k)
    \/ \E k \in DOMAIN execs : startResolve(k)
    \/ \E k \in DOMAIN execs : startReject(k)
    \/ \E k \in DOMAIN execs : execRun(k)

NextListener == \E c \in Containers : listenerRead(c)

\* ------------------------------------------------------- the output relay
\* The chunks of a container are numbered in the order it emits them.

\* a call of setupContainerOutputListener up to its await: container.attach
\* is requested (line 148).  The caller resolves the container from the
\* session id.
setupContainerOutputListener(id) ==
    /\ Len(attaches) < MaxAttach
    /\ id \in DOMAIN sessionContainers
    /\ attaches' = Append(attaches,
          [container |-> MapGet(sessionContainers, id), pc |-> "attach",
           from |-> 0, delivered |-> << >>, ended |-> FALSE])
    /\ UNCHANGED <<sessionVars, commandVars, emitted>>

\* container.attach({stream: true}) resolves with a stream that carries the
\* output from now on (no logs: true, so nothing emitted earlier); lines
\* 153-154 set the encoding and make callback the listener of 'data'
attachResolve(a) ==
    /\ attaches[a].pc = "attach"
    /\ attaches' = [attaches EXCEPT ![a].pc = "listening",
                                    ![a].from = emitted[attaches[a].container] + 1]
    /\ UNCHANGED <<sessionVars, commandVars, emitted>>

\* container.attach rejects: the call rejects, no listener is set
attachReject(a) ==
    /\ attaches[a].pc = "attach"
    /\ attaches' = [attaches EXCEPT ![a].pc = "rejected"]
    /\ UNCHANGED <<sessionVars, commandVars, emitted>>

\* chunks emitted by the containers from 1 to c
RECURSIVE EmittedUpTo(_)
EmittedUpTo(c) == IF c = 0 THEN 0 ELSE emitted[c] + EmittedUpTo(c - 1)

\* the engine side: a running container writes a chunk of output
containerEmit(c) ==
    /\ containerState[c] = "running"
    /\ EmittedUpTo(MaxCalls) < MaxChunks
    /\ emitted' = [emitted EXCEPT ![c] = @ + 1]
    /\ UNCHANGED <<sessionVars, commandVars, attaches>>

\* a stream that hands over its first chunk again and again
nextChunkAgain(a) == a.from

\* the chunk the stream of a call hands to its 'data' listener next
nextChunk(a) == a.from + Len(a.delivered)

\* the stream emits 'data': callback is called with the next chunk
streamData(a) ==
    /\ attaches[a].pc = "listening"
    /\ ~attaches[a].ended
    /\ nextChunk(attaches[a]) <= emitted[attaches[a].container]
    /\ attaches' = [attaches EXCEPT
                       ![a].delivered = Append(@, nextChunk(attaches[a]))]
    /\ UNCHANGED <<sessionVars, commandVars, emitted>>

\* the stream ends: the container has stopped and the stream has handed over
\* everything it carried
streamEnd(a) ==
    /\ attaches[a].pc = "listening"
    /\ ~attaches[a].ended
    /\ containerState[attaches[a].container] = "exited"
    /\ nextChunk(attaches[a]) > emitted[attaches[a].container]
    /\ attaches' = [attaches EXCEPT ![a].ended = TRUE]
    /\ UNCHANGED <<sessionVars, commandVars, emitted>>

NextRelay ==
    \/ \E id \in Uuids : setupContainerOutputListener(id)
    \/ \E a \in DOMAIN attaches : attachResolve(a)
    \/ \E a \in DOMAIN attaches : attachReject(a)
    \/ \E c \in Containers : containerEmit(c)
    \/ \E a \in DOMAIN attaches : streamData(a)
    \/ \E a \in DOMAIN attaches : streamEnd(a)

NextSessions ==
    \/ \E p \in Calls : startPythonSession(p)
    \/ \E p \in Calls : createContainerResolve(p)
    \/ \E p \in Calls : createContainerReject(p)
    \/ \E p \in Calls : containerStartResolve(p)
    \/ \E p \in Calls : containerStartReject(p)
    \/ \E c \in Containers : containerExit(c)

NextRegistry ==
    \/ \E id \in knownIds : GetContainer(id)
    \/ \E id \in knownIds, c \in startedContainers : RegisterContainer(id, c)

Next == NextSessions \/ NextRegistry \/ NextCommands \/ NextListener \/ NextRelay

vars == <<sessionVars, commandVars, relayVars>>

Spec == Init /\ [][Next]_vars

\* the calls of getContainer and of startPythonSession
SpecSessions ==
    Init /\ [][NextSessions \/ \E id \in knownIds : GetContainer(id)]_vars

\* with direct calls of registerContainer
SpecRegistry == Init /\ [][NextSessions \/ NextRegistry]_vars

\* sessions and the commands issued on them
SpecCommands == Init /\ [][NextSessions \/ NextCommands]_vars

\* sessions and the output relay
SpecRelay == Init /\ [][NextSessions \/ NextRelay]_vars

\* sessions, commands and the command listener inside the containers
SpecListener == Init /\ [][NextSessions \/ NextCommands \/ NextListener]_vars

\* the service as its callers drive it: sessions, lookups, the three commands
\* with one payload each, and setupContainerOutputListener up to its return
NextService ==
    \/ NextSessions
    \/ \E id \in knownIds : GetContainer(id)
    \/ \E id \in Uuids : upsertFiles(id, << >>)
    \/ \E id \in Uuids : startProgram(id)
    \/ \E id \in Uuids : sendInput(id, <<"42">>)
    \/ \E k \in DOMAIN execs : execResolve(k)
    \/ \E k \in DOMAIN execs : execReject(k)
    \/ \E k \in DOMAIN execs : startResolve(k)
    \/ \E k \in DOMAIN execs : startReject(k)
    \/ \E k \in DOMAIN execs : execRun(k)
    \/ \E id \in Uuids : setupContainerOutputListener(id)
    \/ \E a \in DOMAIN attaches : attachResolve(a)
    \/ \E a \in DOMAIN attaches : attachReject(a)

SpecService == Init /\ [][NextService]_vars

\* ===================================================================== claims

\* the records a call is meant to put into the control file
RECURSIVE UpsertRecords(_)
UpsertRecords(files) ==
    IF files = << >> THEN << >>
    ELSE <<<<"upsert", SP>> \o files[1][1] \o <<SP>> \o files[1][2]>>
            \o UpsertRecords(Tail(files))

RecordsOf(e) ==
    IF e.op = "upsertFiles" THEN UpsertRecords(e.arg)
    ELSE IF e.op = "startProgram" THEN <<<<"run">>>>
    ELSE <<<<"input", SP>> \o e.arg>>

\* the records the calls issued on container c are meant to deliver, in
\* issue order
RECURSIVE IssuedRecords(_, _)
IssuedRecords(es, c) ==
    IF es = << >> THEN << >>
    ELSE (IF es[1].container = c THEN RecordsOf(es[1]) ELSE << >>)
            \o IssuedRecords(Tail(es), c)

\* the payload of call e has none of the characters the shell treats specially
PlainText(t) == \A i \in DOMAIN t : t[i] \notin Special

PlainPayload(e) ==
    IF e.op = "upsertFiles"
    THEN \A i \in DOMAIN e.arg : PlainText(e.arg[i][1]) /\ PlainText(e.arg[i][2])
    ELSE PlainText(e.arg)

\* call k runs its shell line in this step
Runs(k) == ~execs[k].ran /\ execs'[k].ran

\* C1: when the commands on a container were issued one after the other, each
\* awaited before the next, with plain payloads, and all have written and the
\* listener has read the control file to its end, the listener has observed
\* exactly the records of the commands, in issue order.
C1_ExactlyOnceInOrder ==
    \A c \in Containers :
        (/\ \A k \in DOMAIN execs :
               execs[k].container = c =>
                   /\ execs[k].awaited
                   /\ execs[k].pc = "returned"
                   /\ execs[k].ran
                   /\ PlainPayload(execs[k])
         /\ readPos[c] = Len(ctl[c]))
        => observed[c] = IssuedRecords(execs, c)

\* C2: a call of upsertFiles, startProgram or sendInput has returned only
\* when its shell line has written the control file.
C2_ReturnsAfterWrite ==
    \A k \in DOMAIN execs : execs[k].pc = "returned" => execs[k].ran

\* C3: the shell line of a sendInput call adds exactly the record
\* `input <text>` at the end of the control file of its container and leaves
\* the lines that were there as they were.
C3_InputAppendsOneRecord ==
    [][\A k \in DOMAIN execs :
          (Runs(k) /\ execs[k].op = "sendInput")
              => ctl'[execs[k].container]
                     = Append(ctl[execs[k].container], <<"input", SP>> \o execs[k].arg)]_vars

\* a call of getContainer or registerContainer happens in this step
Called(op) == lastCall' # lastCall /\ lastCall'.op = op

\* C4 as stated: getContainer of an id that is not registered fails with
\* UnknownSession.
C4_UnknownSessionError ==
    [][(Called("getContainer") /\ lastCall'.id \notin DOMAIN sessionContainers)
          => lastCall'.outcome = "UnknownSession"]_vars

\* C4 amended: getContainer of an id that is not registered resolves with
\* undefined, which no registered id yields; getContainer of a registered id
\* resolves with the container bound to it, and right after
\* registerContainer(id, s) that container is s.
C4_GetContainerResolves ==
    [][/\ Called("getContainer") =>
            /\ lastCall'.outcome = "resolved"
            /\ IF lastCall'.id \in DOMAIN sessionContainers
               THEN /\ lastCall'.value = sessionContainers[lastCall'.id]
                    /\ lastCall'.value # Undefined
               ELSE lastCall'.value = Undefined
       /\ Called("registerContainer") =>
            getContainer(sessionContainers', lastCall'.id).value = lastCall'.value]_vars

C4_Witness ==
    /\ lastCall.op = "getContainer"
    /\ lastCall.id \notin DOMAIN sessionContainers
    /\ lastCall.value = Undefined
    /\ sessionContainers # << >>

\* C5: registerContainer of an id that is bound fails with DuplicateSession,
\* and no step replaces the binding of an id.
C5_DuplicateSessionRejected ==
    [][/\ (Called("registerContainer") /\ lastCall'.id \in DOMAIN sessionContainers)
            => lastCall'.outcome = "DuplicateSession"
       /\ \A id \in DOMAIN sessionContainers :
            /\ id \in DOMAIN sessionContainers'
            /\ sessionContainers'[id] = sessionContainers[id]]_vars

\* C6: a startPythonSession call whose createContainer or start rejects
\* rejects with the error of the engine, returns no session id and leaves the
\* registry as it was: its id is not registered, and every registered
\* container is one whose start resolved.
C6_FailedProvisionNotRegistered ==
    /\ [](/\ \A p \in Calls :
                calls[p].pc = "rejected" =>
                    /\ calls[p].result = "EngineError"
                    /\ calls[p].sessionId \notin DOMAIN sessionContainers
          /\ \A id \in DOMAIN sessionContainers :
                sessionContainers[id] \in startedContainers)
    /\ [][\A p \in Calls :
            (calls[p].pc # "rejected" /\ calls'[p].pc = "rejected")
                => sessionContainers' = sessionContainers]_vars

C6_Witness ==
    \E p, q \in Calls :
        /\ calls[p].pc = "rejected"
        /\ calls[p].container # NoContainer
        /\ calls[q].pc = "returned"
        /\ calls[q].result \in DOMAIN sessionContainers

\* C7: the registry binds the id of every returned startPythonSession call to
\* the container of that call, and no container is bound to two ids.
C7_RegistryOneToOne ==
    /\ \A p \in Calls :
          calls[p].pc = "returned" =>
              /\ calls[p].sessionId \in DOMAIN sessionContainers
              /\ sessionContainers[calls[p].sessionId] = calls[p].container
    /\ \A a, b \in DOMAIN sessionContainers :
          a # b => sessionContainers[a] # sessionContainers[b]

C7_Witness ==
    /\ \A p \in Calls : calls[p].pc = "returned"
    /\ Cardinality(DOMAIN sessionContainers) = MaxCalls

\* C8: the control file of a session's container changes only in a step in
\* which a command issued on that session runs its shell line.
C8_SessionIsolation ==
    [][\A id \in DOMAIN sessionContainers :
          ctl'[sessionContainers[id]] # ctl[sessionContainers[id]]
              => \E k \in DOMAIN execs : Runs(k) /\ execs[k].session = id]_vars

C8_Witness ==
    \E j, k \in DOMAIN execs :
        /\ execs[j].session # execs[k].session
        /\ execs[j].op = "upsertFiles" /\ execs[k].op = "upsertFiles"
        /\ execs[j].arg # execs[k].arg
        /\ execs[j].ran /\ execs[k].ran
        /\ ctl[execs[j].container] # << >>
        /\ ctl[execs[k].container] # << >>
        /\ ctl[execs[j].container] # ctl[execs[k].container]

C10_PayloadIntact ==
    [][\A k \in DOMAIN execs :
          (Runs(k) /\ execs[k].op \in {"upsertFiles", "sendInput"})
              => NonEmpty(ctl'[execs[k].container])
                    = (IF execs[k].op = "sendInput"
                       THEN NonEmpty(ctl[execs[k].container]) ELSE << >>)
                      \o RecordsOf(execs[k])]_vars

\* C11: a call of upsertFiles, startProgram or sendInput makes one
\* container.exec request; when the creation or the start of its exec fails,
\* the call rejects in that step, stays rejected, and the step leaves the
\* registry as it was.
C11_ExecFailureRejectsOnce ==
    /\ [](\A k \in DOMAIN execs : execs[k].attempts = 1)
    /\ [][\A k \in DOMAIN execs :
            /\ (execs[k].pc # "rejected" /\ execs'[k].pc = "rejected")
                  => /\ sessionContainers' = sessionContainers
                     /\ containerState[execs[k].container] # "running"
            /\ execs[k].pc = "rejected" => execs'[k] = execs[k]]_vars

C11_Witness ==
    \E j, k \in DOMAIN execs :
        /\ execs[j].pc = "rejected"
        /\ execs[k].pc = "rejected" /\ execs[k].op # execs[j].op
        /\ sessionContainers # << >>

\* C13: the shell line of an upsertFiles or startProgram call replaces the
\* whole control file: once it has run, the records of the file are exactly
\* one `upsert <filename> <content>` record per entry of the files, in
\* iteration order, or the single record `run`, and nothing that was in the
\* file before.
C13_OverwriteHoldsExactly ==
    [][\A k \in DOMAIN execs :
          (Runs(k) /\ execs[k].op \in {"upsertFiles", "startProgram"})
              => /\ NonEmpty(ctl'[execs[k].container]) = RecordsOf(execs[k])
                 /\ execs[k].attempts = 1]_vars

\* C14: startProgram and a sendInput issued after it, without awaiting it,
\* race on the control file of the session: when the shell line of the
\* input has run first, the shell line of the run replaces the file by the
\* single record `run`, the listener starts again at its first line, and an
\* `input` record the listener had not observed is not observed in that step.
C14_RunErasesEarlierInput ==
    [][\A j, k \in DOMAIN execs :
          (/\ Runs(j) /\ execs[j].op = "startProgram"
           /\ j < k /\ execs[k].op = "sendInput"
           /\ execs[k].container = execs[j].container
           /\ ~execs[k].awaited /\ execs[k].ran)
              => /\ ctl'[execs[j].container] = <<<<"run">>>>
                 /\ readPos'[execs[j].container] = 0
                 /\ observed' = observed]_vars

\* the interleaving of C14 has happened: both calls have returned and written,
\* the listener has read the file to its end and has seen `run` only
C14_Witness ==
    \E j, k \in DOMAIN execs :
        /\ j < k /\ execs[j].op = "startProgram"
        /\ execs[k].op = "sendInput" /\ execs[k].arg = <<"42">>
        /\ execs[k].container = execs[j].container
        /\ ~execs[k].awaited
        /\ execs[j].ran /\ execs[k].ran
        /\ execs[j].pc = "returned" /\ execs[k].pc = "returned"
        /\ ctl[execs[j].container] = <<<<"run">>>>
        /\ readPos[execs[j].container] = Len(ctl[execs[j].container])
        /\ observed[execs[j].container] = <<<<"run">>>>

\* C15: the container of every startPythonSession call is created with the
\* workspace directory of its session bound into it, and with no other
\* directory of the host.
C15_WorkspaceMounted ==
    \A p \in Calls :
        calls[p].container # NoContainer
            => containerConfig[calls[p].container].Binds = {tempDir(calls[p].sessionId)}

\* C16: the id a startPythonSession call has returned is registered from the
\* moment of the return on, and getContainer of it yields the container of
\* that call ever after, whatever calls of startPythonSession, upsertFiles,
\* startProgram, sendInput and setupContainerOutputListener follow: no step
\* removes or rebinds an entry of the registry.
C16_RegisteredForGood ==
    /\ [](\A p \in Calls :
            calls[p].pc = "returned"
                => getContainer(sessionContainers, calls[p].result).value
                       = calls[p].container)
    /\ [][\A id \in DOMAIN sessionContainers :
            /\ id \in DOMAIN sessionContainers'
            /\ getContainer(sessionContainers', id) = getContainer(sessionContainers, id)]_vars

C16_Witness ==
    /\ \A p \in Calls : calls[p].pc = "returned"
    /\ Len(execs) = MaxExecs /\ \A k \in DOMAIN execs : Settled(execs[k])
    /\ \E a \in DOMAIN attaches : attaches[a].pc = "listening"
    /\ \E p \in Calls :
          /\ lastCall.op = "getContainer" /\ lastCall.id = calls[p].result
          /\ lastCall.value = calls[p].container
          /\ containerState[calls[p].container] = "exited"

\* C17: a step of upsertFiles, startProgram, sendInput,
\* setupContainerOutputListener or getContainer, successful or failing,
\* leaves the registry as it was; the registry changes only in the
\* registering step of startPythonSession or in a call of registerContainer.
C17_OnlyRegistrationWrites ==
    [][/\ (\/ execs' # execs \/ ctl' # ctl \/ attaches' # attaches
           \/ Called("getContainer"))
          => sessionContainers' = sessionContainers
       /\ sessionContainers' # sessionContainers
          => \/ \E p \in Calls : calls[p].pc = "start" /\ calls'[p].pc = "returned"
             \/ Called("registerContainer")]_vars

C17_Witness ==
    /\ \E k \in DOMAIN execs : execs[k].pc = "rejected"
    /\ \E k \in DOMAIN execs : execs[k].pc = "returned" /\ execs[k].ran
    /\ \E a \in DOMAIN attaches : attaches[a].pc = "rejected"
    /\ lastCall.op = "getContainer" /\ lastCall.id \in OtherIds
    /\ DOMAIN sessionContainers = {calls[p].result : p \in {q \in Calls : calls[q].pc = "returned"}}
    /\ sessionContainers # << >>

\* C18: a call of upsertFiles with no files still issues its one exec, and
\* the shell line of that exec replaces the control file: once it has run the
\* file holds no record, whatever records it held before.
C18_EmptyUpsertClearsFile ==
    [][\A k \in DOMAIN execs :
          (Runs(k) /\ execs[k].op = "upsertFiles" /\ execs[k].arg = << >>)
              => /\ NonEmpty(ctl'[execs[k].container]) = << >>
                 /\ ctl'[execs[k].container] # << >>
                 /\ execs[k].attempts = 1]_vars

\* an `input` record the listener had not read is gone: the input was written,
\* the upsertFiles with no files issued after it was written next, and the
\* listener, at the end of the file, has observed nothing
C18_Witness ==
    \E j, k \in DOMAIN execs :
        /\ j < k /\ execs[j].op = "sendInput" /\ execs[j].arg = <<"42">>
        /\ execs[k].op = "upsertFiles" /\ execs[k].arg = << >>
        /\ execs[k].container = execs[j].container /\ execs[k].awaited
        /\ execs[j].ran /\ execs[k].ran
        /\ NonEmpty(ctl[execs[k].container]) = << >>
        /\ readPos[execs[k].container] = Len(ctl[execs[k].container])
        /\ observed[execs[k].container] = << >>
====
